---- MODULE Spec2Model ----
(***************************************************************************)
(* The expense service of src/main.py: one table of Expense rows and the   *)
(* HTTP handlers that create, list, filter, summarise, update and delete   *)
(* them.  A string is a sequence of code points, a date is a day number,   *)
(* an amount is a whole number of currency units.  Handlers run on the     *)
(* threads of a pool: a create, an update and a delete are several storage *)
(* steps each, and other requests may run between them; a query is one     *)
(* scan of the table.                                                      *)
(***************************************************************************)
EXTENDS Integers, Sequences, FiniteSets

VARIABLES
    table,             \* the rows of the expense table: a set of [id, category, amount, date]
    today,             \* the calendar day (what date.today() returns now)
    default_end_date,  \* the default of end_date, evaluated once when the module is loaded
    inflight,          \* per thread of the pool: the request it runs and where it stands
    resp               \* what the last step did and, when it answered, the answer

vars == <<table, today, default_end_date, inflight, resp>>

\* ------------------------------------------------------------------ bounds

\* The update requests name ids of 1..MaxId, and their tables hold at most MaxId rows.
MaxId == 2

\* The tables the queries read hold at most MaxRows rows.
MaxRows == 3

\* The threads of the pool that run handlers at the same time.
MaxInFlight == 2

\* Days range over 1..MaxDay.
MaxDay == 3

\* Field(max_length=50) of ExpenseCreate.category.
MaxCategoryLen == 50

Ids == 1..MaxId
Workers == 1..MaxInFlight
Dates == 1..MaxDay

\* ----------------------------------------------------------------- strings

StrEmpty == << >>
\* "F", "f", "Fo", "G", and the non-ASCII capital "É" (U+00C9)
StrF == <<70>>
Strf == <<102>>
StrFo == <<70, 111>>
StrG == <<71>>
StrEacute == <<201>>
\* 50 and 51 times "x"
Str50 == [i \in 1..MaxCategoryLen |-> 120]
Str51 == [i \in 1..(MaxCategoryLen + 1) |-> 120]

\* str.lower() of Python: every cased letter, here those of Latin-1.
PyLowerChar(c) ==
    IF c \in 65..90 THEN c + 32
    ELSE IF c \in 192..222 /\ c # 215 THEN c + 32
    ELSE c

py_lower(s) == IF Len(s) = 0 THEN << >> ELSE [i \in 1..Len(s) |-> PyLowerChar(s[i])]

\* lower() of SQLite, which func.lower() renders: the ASCII letters only.
SqlLowerChar(c) == IF c \in 65..90 THEN c + 32 ELSE c

sql_lower(s) == IF Len(s) = 0 THEN << >> ELSE [i \in 1..Len(s) |-> SqlLowerChar(s[i])]

\* -------------------------------------------------------------------- rows

\* An optional argument: << >> when omitted (None), <<v>> when given.
None == << >>
Some(v) == <<v>>

Fields == {"id", "category", "amount", "date"}

IdsOf(t) == {r.id : r \in t}

RowAt(t, i) == CHOOSE r \in t : r.id = i

\* select(Expense).where(Expense.id == index)
RowsWithId(t, i) == {r \in t : r.id = i}

MinId(t) == CHOOSE i \in IdsOf(t) : \A j \in IdsOf(t) : i <= j

MaxIdOf(t) == CHOOSE i \in IdsOf(t) : \A j \in IdsOf(t) : j <= i

\* select(Expense) ... .all(): the rows in rowid order.
RECURSIVE Scan(_)
Scan(t) ==
    IF t = {} THEN << >>
    ELSE LET first == RowAt(t, MinId(t))
         IN  <<first>> \o Scan(t \ {first})

\* The rowid SQLite gives a row inserted with id NULL.
NextRowId(t) == IF t = {} THEN 1 ELSE MaxIdOf(t) + 1

\* What a step leaves in resp.  status is the HTTP status of the answer, or 0 when
\* the step does not answer (the request goes on); before and after are the
\* table as the step found and left it; row is the row object the handler holds.
Event(op, step, status, args, body, row, after) ==
    [op |-> op, step |-> step, status |-> status, args |-> args, body |-> body,
     row |-> row, before |-> table, after |-> after, at |-> today]

\* The answer of a request that is handled in one storage step or none.
Response(op, status, args, body) ==
    Event(op, "answer", status, args, body, << >>, table)

\* A thread that runs no request.
Idle == [op |-> "idle", pc |-> "idle", args |-> << >>, row |-> << >>]

\* The thread that takes the next request: which one of the free threads it is
\* makes no difference, so it is the first.
FreeWorker(w) ==
    /\ inflight[w] = Idle
    /\ \A v \in Workers : inflight[v] = Idle => w <= v

\* -------------------------------------------------------------------- Init

Init ==
    /\ table = {}
    /\ today = 1
    /\ default_end_date = today
    /\ inflight = [w \in Workers |-> Idle]
    /\ resp = [op |-> "start", step |-> "answer", status |-> 200, args |-> << >>,
               body |-> << >>, row |-> << >>, before |-> {}, after |-> {}, at |-> 1]

\* ------------------------------------------------------------------ create

\* ExpenseCreate: category of at most 50 characters, amount greater than 0.
ExpenseCreateValid(expense) ==
    /\ Len(expense.category) <= MaxCategoryLen
    /\ expense.amount > 0

\* Expense(**expense.model_dump()), added and committed: the store assigns the id.
NewExpense(expense) ==
    [id |-> NextRowId(table), category |-> expense.category,
     amount |-> expense.amount, date |-> expense.date]

\* POST /expenses/, to the commit: the body is validated as an ExpenseCreate, the
\* row is inserted and committed.
create_expense(w, expense) ==
    /\ FreeWorker(w)
    /\ IF ~ExpenseCreateValid(expense)
       THEN /\ resp' = Response("create", 422, expense, "validation error")
            /\ UNCHANGED <<table, inflight>>
       ELSE /\ table' = table \cup {NewExpense(expense)}
            /\ inflight' = [inflight EXCEPT ![w] =
                   [op |-> "create", pc |-> "refresh", args |-> expense,
                    row |-> NewExpense(expense)]]
            /\ resp' = Event("create", "commit", 0, expense, << >>,
                             NewExpense(expense), table')
    /\ UNCHANGED <<today, default_end_date>>

\* session.refresh(new_expense) and the return: the row is read again by its id;
\* when it is gone the refresh raises and the except clause answers 500.
create_expense_refresh(w) ==
    /\ inflight[w].op = "create"
    /\ inflight[w].pc = "refresh"
    /\ IF RowsWithId(table, inflight[w].row.id) = {}
       THEN resp' = Event("create", "refresh", 500, inflight[w].args,
                          "Could not refresh instance", inflight[w].row, table)
       ELSE resp' = Event("create", "refresh", 200, inflight[w].args,
                          RowAt(table, inflight[w].row.id), inflight[w].row, table)
    /\ inflight' = [inflight EXCEPT ![w] = Idle]
    /\ UNCHANGED <<table, today, default_end_date>>

\* ------------------------------------------------------------------ update

\* The attributes of the row that the unit of work finds changed: those of the
\* body whose value differs from the one read.  The body of PUT becomes an
\* Expense, a table model, which is built without validation or conversion, so a
\* date of the body is a str and differs from every date read.
Changed(read, update) ==
    {f \in DOMAIN update : f = "date" \/ update[f] # read[f]}

\* UPDATE expense SET <the changed attributes> WHERE id = <the id read>.
Merged(old, update, changed) ==
    [f \in Fields |-> IF f \in changed THEN update[f] ELSE old[f]]

\* The Date column refuses a str when the UPDATE binds it.
CommitRefusesDate(changed) == "date" \in changed

\* PUT /expenses/{index}, the lookup: select(Expense).where(Expense.id == index).one()
update_expense(w, index, expense) ==
    /\ FreeWorker(w)
    /\ IF RowsWithId(table, index) = {}
       THEN \* .one() raises NoResultFound, which nothing catches
            /\ resp' = Event("update", "select", 500,
                             [index |-> index, expense |-> expense],
                             "Internal Server Error", << >>, table)
            /\ UNCHANGED inflight
       ELSE /\ inflight' = [inflight EXCEPT ![w] =
                   [op |-> "update", pc |-> "commit",
                    args |-> [index |-> index, expense |-> expense],
                    row |-> RowAt(table, index)]]
            /\ resp' = Event("update", "select", 0,
                             [index |-> index, expense |-> expense], << >>,
                             RowAt(table, index), table)
    /\ UNCHANGED <<table, today, default_end_date>>

\* The setattr loop, session.add and session.commit(): an UPDATE of the changed
\* attributes of the row whose id was read, or no statement when none changed.
update_expense_commit(w) ==
    /\ inflight[w].op = "update"
    /\ inflight[w].pc = "commit"
    /\ LET read == inflight[w].row
           args == inflight[w].args
           changed == Changed(read, args.expense)
           now == RowsWithId(table, read.id)
       IN  IF changed = {}
           THEN \* nothing to write: the commit sends no UPDATE
                /\ table' = table
                /\ inflight' = [inflight EXCEPT ![w].pc = "refresh",
                                                ![w].row = IF now = {} THEN read
                                                           ELSE RowAt(table, read.id)]
                /\ resp' = Event("update", "commit", 0, args, << >>,
                                 IF now = {} THEN read ELSE RowAt(table, read.id), table)
           ELSE IF \/ CommitRefusesDate(changed)
                   \/ now = {}
                   \/ "id" \in changed /\ args.expense.id \in IdsOf(table)
           THEN \* the statement fails on the date, matches no row, or breaks the
                \* primary key: nothing catches it, nothing is committed
                /\ table' = table
                /\ inflight' = [inflight EXCEPT ![w] = Idle]
                /\ resp' = Event("update", "commit", 500, args,
                                 "Internal Server Error", read, table)
           ELSE LET new == Merged(RowAt(table, read.id), args.expense, changed)
                IN  /\ table' = (table \ now) \cup {new}
                    /\ inflight' = [inflight EXCEPT ![w].pc = "refresh",
                                                    ![w].row = new]
                    /\ resp' = Event("update", "commit", 0, args, << >>, new, table')
    /\ UNCHANGED <<today, default_end_date>>

\* session.refresh(updated_expense) and the return: the row is read again by the
\* id it was given; when it is gone the refresh raises, and nothing catches it.
update_expense_refresh(w) ==
    /\ inflight[w].op = "update"
    /\ inflight[w].pc = "refresh"
    /\ IF RowsWithId(table, inflight[w].row.id) = {}
       THEN resp' = Event("update", "refresh", 500, inflight[w].args,
                          "Internal Server Error", inflight[w].row, table)
       ELSE resp' = Event("update", "refresh", 200, inflight[w].args,
                          RowAt(table, inflight[w].row.id), inflight[w].row, table)
    /\ inflight' = [inflight EXCEPT ![w] = Idle]
    /\ UNCHANGED <<table, today, default_end_date>>

\* ------------------------------------------------------------------ delete

\* DELETE /expenses/{index}, the lookup
delete_expense(w, index) ==
    /\ FreeWorker(w)
    /\ IF index = 0
       THEN /\ resp' = Response("delete", 400, index, "Expense index is required")
            /\ UNCHANGED inflight
       ELSE IF RowsWithId(table, index) = {}
       THEN \* .one() raises NoResultFound inside the try: except Exception answers 500
            /\ resp' = Event("delete", "select", 500, index,
                             "No row was found when one was required", << >>, table)
            /\ UNCHANGED inflight
       ELSE /\ inflight' = [inflight EXCEPT ![w] =
                   [op |-> "delete", pc |-> "commit", args |-> index,
                    row |-> RowAt(table, index)]]
            /\ resp' = Event("delete", "select", 0, index, << >>,
                             RowAt(table, index), table)
    /\ UNCHANGED <<table, today, default_end_date>>

\* session.delete, session.commit() and the return: DELETE ... WHERE id = <the id
\* read>; a row that is gone by now is a warning only, and the answer shows the
\* row as it was read.
delete_expense_commit(w) ==
    /\ inflight[w].op = "delete"
    /\ inflight[w].pc = "commit"
    /\ table' = table \ RowsWithId(table, inflight[w].row.id)
    /\ resp' = Event("delete", "commit", 200, inflight[w].args, inflight[w].row,
                     inflight[w].row, table')
    /\ inflight' = [inflight EXCEPT ![w] = Idle]
    /\ UNCHANGED <<today, default_end_date>>

\* ---------------------------------------------------------------- list-all

\* GET /expenses/
get_all_expenses ==
    /\ IF Scan(table) = << >>
       THEN resp' = Response("list", 404, << >>, "No expenses found")
       ELSE resp' = Response("list", 200, << >>, Scan(table))
    /\ UNCHANGED <<table, today, default_end_date, inflight>>

\* ----------------------------------------------------------------- summary

\* The place of category c among the keys of the dict d, 0 when it is no key.
KeyIndex(d, c) ==
    IF \E i \in 1..Len(d) : d[i].category = c
    THEN CHOOSE i \in 1..Len(d) : d[i].category = c
    ELSE 0

\* expense_summary[expense.category] += expense.amount, on a defaultdict(float):
\* a new key goes last, a known key keeps its place.
AddTo(d, expense) ==
    IF KeyIndex(d, expense.category) = 0
    THEN Append(d, [category |-> expense.category, amount |-> expense.amount])
    ELSE [d EXCEPT ![KeyIndex(d, expense.category)].amount = @ + expense.amount]

RECURSIVE Accumulate(_, _)
Accumulate(d, expenses) ==
    IF expenses = << >> THEN d
    ELSE Accumulate(AddTo(d, Head(expenses)), Tail(expenses))

\* InsertDesc as a sort in ascending order that is then reversed: equal totals
\* come out in the opposite order.
InsertDescReversed(sorted, x) ==
    LET n == Cardinality({i \in 1..Len(sorted) : sorted[i].amount > x.amount})
    IN  SubSeq(sorted, 1, n) \o <<x>> \o SubSeq(sorted, n + 1, Len(sorted))

\* Where sorted(..., reverse=True) puts x among the items already placed: after
\* every item whose total is no smaller, so that equal totals keep their order.
InsertDesc(sorted, x) ==
    LET n == Cardinality({i \in 1..Len(sorted) : sorted[i].amount >= x.amount})
    IN  SubSeq(sorted, 1, n) \o <<x>> \o SubSeq(sorted, n + 1, Len(sorted))

\* sorted(expense_summary.items(), key=lambda x: x[1], reverse=True)
RECURSIVE SortedDesc(_, _)
SortedDesc(sorted, items) ==
    IF items = << >> THEN sorted
    ELSE SortedDesc(InsertDesc(sorted, Head(items)), Tail(items))

\* ... if amount > min_amount
AboveMin(items, min_amount) ==
    LET Keep(x) == x.amount > min_amount
    IN  SelectSeq(items, Keep)

\* get_summary with the emptiness test made on the filtered mapping.
get_summary_empty_after_filter(min_amount) ==
    /\ IF AboveMin(SortedDesc(<< >>, Accumulate(<< >>, Scan(table))), min_amount) = << >>
       THEN resp' = Response("summary", 404, min_amount, "No expenses found")
       ELSE resp' = Response("summary", 200, min_amount,
                             AboveMin(SortedDesc(<< >>, Accumulate(<< >>, Scan(table))),
                                      min_amount))
    /\ UNCHANGED <<table, today, default_end_date, inflight>>

\* GET /expenses/summary/{min_amount}
get_summary(min_amount) ==
    /\ IF Scan(table) = << >>
       THEN resp' = Response("summary", 404, min_amount, "No expenses found")
       ELSE resp' = Response("summary", 200, min_amount,
                             AboveMin(SortedDesc(<< >>, Accumulate(<< >>, Scan(table))),
                                      min_amount))
    /\ UNCHANGED <<table, today, default_end_date, inflight>>

\* ------------------------------------------------ category filter, search

\* select(Expense).where(func.lower(Expense.category) == text.lower()).all()
MatchingCategory(text) ==
    LET Keep(r) == sql_lower(r.category) = py_lower(text)
    IN  SelectSeq(Scan(table), Keep)

\* The handler of GET /expenses/category/{category}.  Its first branch answers
\* an empty category, which the route never passes to it.
get_category_based_expenses(category) ==
    /\ IF category = StrEmpty
       THEN resp' = Response("category", 400, Some(category), "Category is required")
       ELSE IF MatchingCategory(category) = << >>
       THEN resp' = Response("category", 404, Some(category), "No expenses found")
       ELSE resp' = Response("category", 200, Some(category), MatchingCategory(category))
    /\ UNCHANGED <<table, today, default_end_date, inflight>>

\* GET /expenses/search/?q=...   (q is None when the parameter is omitted)
search_expenses(q) ==
    /\ IF q = None \/ q = Some(StrEmpty)
       THEN resp' = Response("search", 400, q, "Query parameter is required")
       ELSE IF MatchingCategory(q[1]) = << >>
       THEN resp' = Response("search", 404, q, "No expenses found")
       ELSE resp' = Response("search", 200, q, MatchingCategory(q[1]))
    /\ UNCHANGED <<table, today, default_end_date, inflight>>

\* ------------------------------------------------------------- date filter

\* The end_date the handler sees: the request's, or the default of the signature.
EndDate(end_date) == IF end_date = None THEN default_end_date ELSE end_date[1]

\* InRange with the upper bound exclusive.
InRangeExclusive(expense, start_date, upper) ==
    /\ start_date = None \/ start_date[1] <= expense.date
    /\ expense.date < upper

\* (not start_date or start_date <= expense.date) and
\* (not end_date or expense.date <= end_date); a date is never falsy.
InRange(expense, start_date, upper) ==
    /\ start_date = None \/ start_date[1] <= expense.date
    /\ expense.date <= upper

\* GET /expenses/datefilter/?start_date=...&end_date=...
search_expenses_bydate(start_date, end_date) ==
    /\ LET Keep(r) == InRange(r, start_date, EndDate(end_date))
       IN  resp' = Response("datefilter", 200,
                            [start_date |-> start_date, end_date |-> end_date],
                            SelectSeq(Scan(table), Keep))
    /\ UNCHANGED <<table, today, default_end_date, inflight>>

\* Midnight: date.today() moves on, the loaded module does not.
Tick ==
    /\ today < MaxDay
    /\ today' = today + 1
    /\ UNCHANGED <<table, default_end_date, inflight, resp>>

\* ------------------------------------------------------------------ inputs

Restrict(f, S) == [k \in S |-> f[k]]

\* The bodies of PUT: an Expense with any subset of its fields set.
PartialExpenses(I, C, A, D) ==
    {Restrict(full, S) : full \in [id : I, category : C, amount : A, date : D],
                         S \in SUBSET Fields}

\* A create request on a table that has room for one more row.
CreateExpense(C, A, D, n) ==
    /\ NextRowId(table) <= n
    /\ \E w \in Workers, c \in C, a \in A, d \in D :
           create_expense(w, [category |-> c, amount |-> a, date |-> d])

CreateRefresh == \E w \in Workers : create_expense_refresh(w)

UpdateExpense(n, P) ==
    \E w \in Workers, index \in 1..n, expense \in P : update_expense(w, index, expense)

UpdateCommit == \E w \in Workers : update_expense_commit(w)

UpdateRefresh == \E w \in Workers : update_expense_refresh(w)

DeleteExpense(n) == \E w \in Workers, index \in 0..n : delete_expense(w, index)

DeleteCommit == \E w \in Workers : delete_expense_commit(w)

GetAllExpenses == get_all_expenses

Optional(S) == {None} \cup {Some(v) : v \in S}

\* ------------------------------------------------- updates of a small table

Create == CreateExpense({StrF}, {1}, {1}, MaxId)

\* Bodies that set at most one field.
UpdateBodies ==
    {p \in PartialExpenses(Ids, {StrG}, {1, 2}, {2}) : Cardinality(DOMAIN p) <= 1}

Update == UpdateExpense(MaxId, UpdateBodies)

Delete == DeleteExpense(MaxId)

Next ==
    \/ Create \/ CreateRefresh
    \/ Update \/ UpdateCommit \/ UpdateRefresh
    \/ Delete \/ DeleteCommit

Spec == Init /\ [][Next]_vars

\* ------------------------------------------- requests with invalid values

CreateAny == CreateExpense({StrEmpty, Str50, Str51}, {0 - 1, 0, 1}, {1}, MaxId)

\* Bodies that set one field, the category or the amount to a value that a
\* create would refuse.
InvalidBodies ==
    {p \in PartialExpenses({1}, {StrEmpty, Str51}, {0}, {1}) : Cardinality(DOMAIN p) = 1}

UpdateAny == UpdateExpense(MaxId, InvalidBodies)

NextValidation ==
    \/ CreateAny \/ CreateRefresh
    \/ UpdateAny \/ UpdateCommit \/ UpdateRefresh

SpecValidation == Init /\ [][NextValidation]_vars

\* ----------------------------------------------------------------- queries

GetSummary == \E min_amount \in 0..4 : get_summary(min_amount)

SummaryCreate == CreateExpense({StrF, Strf, StrG}, {1, 2}, {1}, MaxRows)

NextSummary == SummaryCreate \/ CreateRefresh \/ GetSummary \/ GetAllExpenses

SpecSummary == Init /\ [][NextSummary]_vars

SearchTexts == {StrEmpty, StrF, Strf, StrFo, StrEacute}

SearchCreate == CreateExpense({StrF, Strf, StrFo, StrEacute}, {1}, {1}, MaxRows)

\* The route /expenses/category/{category}: a path whose last segment is empty
\* does not match it and is answered by the router with a redirect to the path
\* without the slash; the handler is not called.
GetCategoryBasedExpenses ==
    \E category \in SearchTexts :
        IF category = StrEmpty
        THEN /\ resp' = Response("category", 307, Some(category), "/expenses/category")
             /\ UNCHANGED <<table, today, default_end_date, inflight>>
        ELSE get_category_based_expenses(category)

SearchExpenses == \E q \in Optional(SearchTexts) : search_expenses(q)

NextSearch == SearchCreate \/ CreateRefresh \/ GetCategoryBasedExpenses \/ SearchExpenses

SpecSearch == Init /\ [][NextSearch]_vars

DateCreate == CreateExpense({StrF}, {1}, Dates, MaxRows)

SearchExpensesByDate ==
    \E start_date \in Optional(Dates), end_date \in Optional(Dates) :
        search_expenses_bydate(start_date, end_date)

NextDate == DateCreate \/ CreateRefresh \/ SearchExpensesByDate

SpecDate == Init /\ [][NextDate]_vars

\* ------------------------------------------- date queries as the days pass

TodayCreate == CreateExpense({StrF}, {1}, Dates, MaxId)

SearchExpensesFromDate ==
    \E start_date \in Optional(Dates) : search_expenses_bydate(start_date, None)

NextToday == TodayCreate \/ CreateRefresh \/ SearchExpensesFromDate \/ Tick

SpecToday == Init /\ [][NextToday]_vars

\* ------------------------------------------------------------------ claims

\* The set of the elements of a sequence.
Range(q) == {q[i] : i \in 1..Len(q)}

\* C1: every stored Expense has amount > 0 and a category of 1 to 50 characters
\* (a create or update that would break this stores nothing).
C1_StoredRowsAreValid ==
    \A r \in table :
        /\ r.amount > 0
        /\ Len(r.category) >= 1
        /\ Len(r.category) <= MaxCategoryLen

\* C2: delete of a non-zero id that no stored row has answers 404 and leaves the
\* table as it was.
C2_DeleteMissingIsNotFound ==
    (/\ resp.op = "delete"
     /\ resp.status # 0
     /\ resp.args # 0
     /\ resp.args \notin IdsOf(resp.before))
        => (resp.status = 404 /\ resp.after = resp.before)

\* C3: update of an id that no stored row has answers a handled 404 and leaves
\* the table as it was.
C3_UpdateMissingIsNotFound ==
    (/\ resp.op = "update"
     /\ resp.step \in {"select", "commit"}
     /\ resp.status # 0
     /\ resp.args.index \notin IdsOf(resp.before))
        => (resp.status = 404 /\ resp.after = resp.before)

\* C4: a successful update changes exactly the fields present in the payload to
\* the supplied values: the commit of an update leaves the fields of the row
\* that the payload does not name and every other row as they were, and the row
\* that an update answered with 200 has left in the table at its commit holds
\* the payload's value in each field that the payload names.
C4_UpdateChangesExactlyPayload ==
    /\ (resp.op = "update" /\ resp.step = "commit" /\ resp.status = 0) =>
           /\ {r \in resp.after : r.id # resp.row.id}
                  = {r \in resp.before : r.id # resp.args.index}
           /\ \A old \in RowsWithId(resp.before, resp.args.index) :
                  \A new \in RowsWithId(resp.after, resp.row.id) :
                     \A f \in Fields \ DOMAIN resp.args.expense : new[f] = old[f]
    /\ (resp.op = "update" /\ resp.step = "refresh" /\ resp.status = 200) =>
           \A f \in DOMAIN resp.args.expense : resp.row[f] = resp.args.expense[f]

\* C5: no two stored rows share an id, and no update changes the id of a stored
\* row: an update leaves the set of stored ids as it was, a create adds at most
\* one new id and a delete removes at most the id it names.
C5_IdsUniqueAndImmutable ==
    /\ \A r1, r2 \in table : r1.id = r2.id => r1 = r2
    /\ resp.op = "update" => IdsOf(resp.after) = IdsOf(resp.before)
    /\ resp.op = "create" =>
           \/ IdsOf(resp.after) = IdsOf(resp.before)
           \/ \E i \in IdsOf(resp.after) \ IdsOf(resp.before) :
                  IdsOf(resp.after) = IdsOf(resp.before) \cup {i}
    /\ resp.op = "delete" =>
           \/ IdsOf(resp.after) = IdsOf(resp.before)
           \/ IdsOf(resp.after) = IdsOf(resp.before) \ {resp.args}

\* C6: a date-filter request without end_date is bounded above by the day on
\* which the request is handled.
C6_DefaultEndDateIsToday ==
    (resp.op = "datefilter" /\ resp.args.end_date = None) =>
        LET Keep(r) == /\ resp.args.start_date = None \/ resp.args.start_date[1] <= r.date
                       /\ r.date <= resp.at
        IN  resp.body = SelectSeq(Scan(resp.before), Keep)

\* The sum of the amounts of the rows of t in category c.
RECURSIVE TotalOf(_, _)
TotalOf(t, c) ==
    IF t = {} THEN 0
    ELSE LET r == CHOOSE x \in t : TRUE
         IN  (IF r.category = c THEN r.amount ELSE 0) + TotalOf(t \ {r}, c)

\* The smallest id of a row of t in category c: where c first appears in a scan.
FirstSeen(t, c) == MinId({r \in t : r.category = c})

\* C7: on a non-empty table summarize lists exactly the categories whose total
\* is strictly greater than min_amount, each once and with its total, by
\* descending total, equal totals in the order the categories first appear.
C7_SummaryIsFilteredSortedTotals ==
    (resp.op = "summary" /\ resp.before # {}) =>
        LET out == resp.body
            t == resp.before
        IN  /\ resp.status = 200
            /\ {x.category : x \in Range(out)}
                   = {r.category : r \in {x \in t : TotalOf(t, x.category) > resp.args}}
            /\ \A i \in 1..Len(out) : out[i].amount = TotalOf(t, out[i].category)
            /\ \A i, j \in 1..Len(out) :
                   i < j => /\ out[i].category # out[j].category
                            /\ out[i].amount >= out[j].amount
                            /\ out[i].amount = out[j].amount =>
                                   FirstSeen(t, out[i].category) < FirstSeen(t, out[j].category)

\* C7 witness: three rows, two categories of equal total of which the
\* later-seen one is a single row, both above a positive min_amount.
C7_TieSummarised ==
    /\ resp.op = "summary"
    /\ resp.status = 200
    /\ Cardinality(resp.before) = 3
    /\ resp.args >= 1
    /\ Len(resp.body) = 2
    /\ resp.body[1].amount = resp.body[2].amount
    /\ Cardinality({r \in resp.before : r.category = resp.body[1].category}) = 2

\* C8: summarize answers 404 exactly when the table is empty, whatever
\* min_amount is, and list-all answers 404 exactly when the table is empty.
C8_NotFoundIffTableEmpty ==
    resp.op \in {"summary", "list"} =>
        /\ resp.before = {} => resp.status = 404
        /\ resp.before # {} => resp.status = 200

\* C8 witness: summarize on a non-empty table of which no total exceeds
\* min_amount has answered 200 with an empty mapping.
C8_EmptyMappingReturned ==
    /\ resp.op = "summary"
    /\ resp.before # {}
    /\ resp.status = 200
    /\ resp.body = << >>

\* C9: date-filter answers 200 and leaves the table alone; with end_date given it
\* lists exactly the rows with start_date <= date <= end_date, each once, with
\* no lower bound when start_date is omitted.
C9_DateFilterIsInclusiveRange ==
    resp.op = "datefilter" =>
        /\ resp.status = 200
        /\ resp.after = resp.before
        /\ resp.args.end_date # None =>
               /\ Range(resp.body) =
                      {r \in resp.before :
                          /\ resp.args.start_date # None => resp.args.start_date[1] <= r.date
                          /\ r.date <= resp.args.end_date[1]}
               /\ Len(resp.body) = Cardinality(Range(resp.body))

\* C9 witness: start_date and end_date name the same day, and the filter has
\* returned the rows of that day and left an earlier and a later row out.
C9_BothBoundsReached ==
    /\ resp.op = "datefilter"
    /\ resp.args.start_date # None
    /\ resp.args.end_date = resp.args.start_date
    /\ resp.body # << >>
    /\ \E r \in resp.before : r.date < resp.args.start_date[1]
    /\ \E r \in resp.before : r.date > resp.args.end_date[1]

\* Equality of two strings up to letter case.
SameIgnoringCase(a, b) == py_lower(a) = py_lower(b)

\* C10: for a non-empty text, search and list-by-category return the stored rows
\* whose category equals the text up to letter case, and answer 404 exactly
\* when there is none; an empty text is answered 400.
C10_SearchIsCaseInsensitiveEquality ==
    resp.op \in {"search", "category"} =>
        IF resp.args = None \/ resp.args = Some(StrEmpty)
        THEN resp.status = 400
        ELSE LET Keep(r) == SameIgnoringCase(r.category, resp.args[1])
                 expected == SelectSeq(Scan(resp.before), Keep)
             IN  IF expected = << >>
                 THEN resp.status = 404
                 ELSE resp.status = 200 /\ resp.body = expected

====
